---------------------------- MODULE Spec2Model ----------------------------
(***************************************************************************)
(* World-morphing simulator: the SimulationEngine of                       *)
(* client/src/lib/simulation/engine.ts (first class of the file) and the   *)
(* host operations of the Home page that write to it.                      *)
(*                                                                         *)
(* Numbers.  The engine works on IEEE doubles.  Here every quantity        *)
(* (energy, temperature, prosperity, thresholds on them) is an integer     *)
(* number of tenths, every dimensionless rate is an integer number of      *)
(* thousandths, and radii, steps and counts are plain integers.  Products  *)
(* with a rate are rounded down.  The one non-finite value the engine can  *)
(* store in a cell, a NaN temperature, is the value NaN below.             *)
(***************************************************************************)
EXTENDS Integers, Sequences, FiniteSets, TLC

VARIABLES blocks, grid, params, timeStep, cycleCount, bioExtinctionStep, isFirstSpawn,
          pc, cursor, changes, hostOps

vars == <<blocks, grid, params, timeStep, cycleCount, bioExtinctionStep, isFirstSpawn,
          pc, cursor, changes, hostOps>>

---------------------------------------------------------------------------
(* Bounds of the model *)

\* grid of Width x Height cells (constructor arguments)
Width == 3
Height == 3
\* number of update() calls explored after each starting step
MaxTicks == 2
\* number of host operations (parameter swaps, brush strokes) explored
MaxHostOps == 1
\* thunderstorms struck in one tick
MaxStorms == 1

---------------------------------------------------------------------------
(* Numeric representation *)

\* one unit of a quantity is a tenth
Tenths == 10
\* one unit of a rate is a thousandth
PerMille == 1000
\* the non-finite temperature (0/0 of an empty neighbour list)
NaN == -99999999
\* bioExtinctionStep: number | null
Null == -1

Q(n) == n * Tenths

Abs(a) == IF a < 0 THEN -a ELSE a
Max(a, b) == IF a >= b THEN a ELSE b
Min(a, b) == IF a <= b THEN a ELSE b

\* a * r for a rate r in thousandths
Rate(a, r) == (a * r) \div PerMille

\* arithmetic on values that may be NaN: NaN is contagious, comparisons with
\* NaN are false
IsNaN(a) == a = NaN
NAdd(a, b) == IF IsNaN(a) \/ IsNaN(b) THEN NaN ELSE a + b
NLt(a, b) == ~IsNaN(a) /\ ~IsNaN(b) /\ a < b
NLe(a, b) == ~IsNaN(a) /\ ~IsNaN(b) /\ a <= b

---------------------------------------------------------------------------
(* Grid and geometry *)

Cells == {<<x, y>> : x \in 0..(Width - 1), y \in 0..(Height - 1)}

\* row-major sweep order: for y ... for x ...
CellAt(i) == <<i % Width, i \div Width>>
CellSeq == [i \in 1..(Width * Height) |-> CellAt(i - 1)]
Index(c) == c[2] * Width + c[1] + 1

InBounds(x, y) == x >= 0 /\ x < Width /\ y >= 0 /\ y < Height

\* 4 * (squared distance to the centre (width/2, height/2))
Dist4(c) == (2 * c[1] - Width) * (2 * c[1] - Width) + (2 * c[2] - Height) * (2 * c[2] - Height)

\* dist < r, dist <= r, dist > r for an integer radius r
DistLt(c, r) == r > 0 /\ Dist4(c) < 4 * r * r
DistLe(c, r) == r >= 0 /\ Dist4(c) <= 4 * r * r
DistGt(c, r) == r < 0 \/ Dist4(c) > 4 * r * r

\* dist < initialRadius = min(width, height) * 0.4
InInitialDisk(c) == 25 * Dist4(c) < 16 * Min(Width, Height) * Min(Width, Height)

Dirs == << <<-1, -1>>, <<0, -1>>, <<1, -1>>, <<-1, 0>>, <<1, 0>>, <<-1, 1>>, <<0, 1>>, <<1, 1>> >>

\* the in-bounds Moore neighbours of c in the order of dirs
AllNeighbors(c) ==
    LET raw == [i \in 1..8 |-> <<c[1] + Dirs[i][1], c[2] + Dirs[i][2]>>]
        ok(n) == InBounds(n[1], n[2])
    IN  SelectSeq(raw, ok)

getNeighbors(g, c, includeVoid) ==
    LET ok(n) == includeVoid \/ g[n].exists
    IN  SelectSeq(AllNeighbors(c), ok)

Range(s) == {s[i] : i \in 1..Len(s)}

RECURSIVE SumSeq(_)
SumSeq(s) == IF s = <<>> THEN 0 ELSE Head(s) + SumSeq(Tail(s))

\* every way to pick, for each d in DOMAIN opt, one element of opt[d]
RECURSIVE ChoiceFns(_)
ChoiceFns(opt) ==
    IF DOMAIN opt = {} THEN {[e \in {} |-> <<0, 0>>]}
    ELSE LET d == CHOOSE e \in DOMAIN opt : TRUE
             rest == ChoiceFns([e \in (DOMAIN opt) \ {d} |-> opt[e]])
         IN  {[e \in DOMAIN opt |-> IF e = d THEN t ELSE f[e]] : t \in opt[d], f \in rest}

---------------------------------------------------------------------------
(* Parameter block (SimulationParams) *)

\* humanSpawnPoint?: absent
NoPoint == <<>>

\* DEFAULT_PARAMS, quantities in tenths, rates in thousandths
DefaultParams ==
    [ mantleTimeScale |-> 2, expansionThreshold |-> 820, shrinkThreshold |-> 220,
      mantleEnergyLevel |-> 1000, maxRadius |-> 15, minRadius |-> 10,
      edgeGenerationEnergy |-> 195, mantleHeatFactor |-> 197,
      diffusionRate |-> 200, thunderstormThreshold |-> 390,
      alphaEnergyDemand |-> 45, betaEnergyDemand |-> 20, mantleAbsorption |-> 100,
      thunderstormEnergy |-> 320, expansionCost |-> 85, maxCrystalEnergy |-> 500,
      energySharingRate |-> 1450, energyDecayRate |-> 90,
      extinctionBonus |-> 500, competitionPenalty |-> 50,
      mutationRate |-> 100, mutationStrength |-> 100, newSpeciesThreshold |-> 200,
      minProsperityGrowth |-> 50, sameSpeciesBonus |-> 5,
      humanMinTemp |-> 70, humanMaxTemp |-> 340,
      humanSurvivalMinTemp |-> -500, humanSurvivalMaxTemp |-> 500,
      humanProsperityGrowth |-> 5, humanProsperityDecay |-> 14,
      humanExpansionThreshold |-> 800, humanMiningReward |-> 270,
      humanMigrationThreshold |-> 800, alphaRadiationDamage |-> 100,
      humanSpawnPoint |-> NoPoint, humanRespawnDelay |-> 20,
      bioAutoSpawnCount |-> 5, bioAutoSpawnInterval |-> 10 ]

\* The parameter blocks the host supplies (constructor argument, and the
\* blocks swapped in between ticks): the defaults, and the defaults with a
\* few knobs turned.

\* the land collapses after two ticks; humans are forced onto (1, 1)
Collapse == [DefaultParams EXCEPT !.minRadius = 0, !.shrinkThreshold = Q(200),
                                 !.humanSpawnPoint = <<1, 1>>]

\* crystals get nothing from the mantle and pay a high maintenance; the
\* weaker of two rival species is hit hard; humans are forced onto (1, 1)
Starve == [DefaultParams EXCEPT !.mantleAbsorption = 0, !.alphaEnergyDemand = Q(10),
                                !.competitionPenalty = Q(90), !.humanSpawnPoint = <<1, 1>>,
                                !.mutationRate = 0]

\* humans cannot survive below 30 degrees and respawn without delay
Harsh == [DefaultParams EXCEPT !.minRadius = 1, !.humanSurvivalMinTemp = Q(30),
                               !.humanSpawnPoint = <<1, 1>>, !.humanRespawnDelay = 0,
                               !.mutationRate = 0]

\* storms anywhere, strong sharing between Alpha cells
Drain == [DefaultParams EXCEPT !.minRadius = 1, !.thunderstormThreshold = -1,
                               !.thunderstormEnergy = Q(14), !.alphaEnergyDemand = Q(9),
                               !.mantleAbsorption = 0, !.energySharingRate = 4000,
                               !.edgeGenerationEnergy = 0, !.mutationRate = 0]

\* Starve with the humans forced onto (2, 2), the last cell of the sweep
Rival == [Starve EXCEPT !.humanSpawnPoint = <<2, 2>>]

\* Drain with a weaker storm and a stronger sharing: a struck Alpha cell owes
\* its three neighbours more than it holds
Surge == [Drain EXCEPT !.thunderstormEnergy = Q(10), !.energySharingRate = 5000]

\* the 3 x 3 map with the land up to its radius limit (every void cell lies
\* beyond maxRadius) and a mantle hot enough to push a bare cell outwards
Sprawl == [DefaultParams EXCEPT !.maxRadius = 1, !.expansionThreshold = Q(45)]

\* a cooling mantle under a stormy sky: the land may shrink everywhere and
\* any temperature difference raises a storm
Squall == [Collapse EXCEPT !.thunderstormThreshold = -1]

\* a mantle that chills the air (one tick takes the land below -50) under a
\* stormy sky
Frost == [DefaultParams EXCEPT !.mantleHeatFactor = -500, !.thunderstormThreshold = -1]

\* a spawn point kept from a 50 x 50 map across a restart with a smaller map
\* (handleRestart passes the current params to the new engine)
Stale == [DefaultParams EXCEPT !.humanSpawnPoint = <<5, 5>>]

\* Starve without a spawn point, with mutations stronger than the
\* new-species threshold
Evolve == [DefaultParams EXCEPT !.mantleAbsorption = 0, !.alphaEnergyDemand = Q(10),
                                !.mutationStrength = 300]

\* Starve without a spawn point, with the automatic species spawn turned
\* off by the slider (bioAutoSpawnCount min 0)
NoAuto == [DefaultParams EXCEPT !.mantleAbsorption = 0, !.alphaEnergyDemand = Q(10),
                                !.mutationRate = 0, !.bioAutoSpawnCount = 0]

---------------------------------------------------------------------------
(* Cells *)

\* bioAttributes?: absent
NoAttrs == [present |-> FALSE]

\* mantleEnergy: exists ? 50 + Math.random() * 20 : 0
InitEnergies == {Q(50), Q(65)}

initializeGrid(e0) ==
    [c \in Cells |->
        LET exists == InInitialDisk(c)
        IN  [ exists |-> exists,
              mantleEnergy |-> IF exists THEN e0 ELSE 0,
              expansionAccumulator |-> 0,
              shrinkAccumulator |-> 0,
              temperature |-> 0,
              hasThunderstorm |-> FALSE,
              crystalState |-> IF exists /\ DistLt(c, 3) THEN "ALPHA" ELSE "EMPTY",
              storedEnergy |-> Q(10),
              isAbsorbing |-> FALSE,
              prosperity |-> 0,
              isMining |-> FALSE,
              bioAttributes |-> NoAttrs ] ]

---------------------------------------------------------------------------
(* updateMantleLayer *)

\* outcomes of generatePerlinNoise(x, y) * 0.1 as the engine uses it: a
\* number (in thousandths) or NaN
NoiseDraws == {NaN, 0}
\* maxInfluence of the rotating supply points on the edge cells, thousandths
InfluenceDraws == {0, PerMille}

\* neighbors.reduce(sum of field) / neighbors.length; NaN for no neighbour
AvgOf(vals) ==
    IF Len(vals) = 0 \/ (\E i \in 1..Len(vals) : IsNaN(vals[i])) THEN NaN
    ELSE SumSeq(vals) \div Len(vals)

\* Phase A: the new mantleEnergy of the land cell c
NewMantleEnergy(g, p, c, noise, infl) ==
    LET cell == g[c]
        neighbors == getNeighbors(g, c, FALSE)
        avgEnergy == AvgOf([i \in 1..Len(neighbors) |-> g[neighbors[i]].mantleEnergy])
        energyFluctuation == IF IsNaN(noise) THEN NaN ELSE PerMille + noise \div 10
        targetEnergy == IF IsNaN(energyFluctuation) THEN NaN
                        ELSE Rate(p.mantleEnergyLevel, energyFluctuation)
        relaxed == IF IsNaN(targetEnergy) THEN NaN
                   ELSE (cell.mantleEnergy * (PerMille - p.mantleTimeScale)
                         + targetEnergy * p.mantleTimeScale) \div PerMille
        diffused == IF IsNaN(avgEnergy) \/ IsNaN(relaxed) THEN relaxed
                    ELSE (relaxed * 6 + avgEnergy * 4) \div 10
        guarded == IF IsNaN(diffused) THEN p.mantleEnergyLevel ELSE diffused
        hasVoidNeighbor == Len(neighbors) < 8
        supplied == IF hasVoidNeighbor /\ infl > 0
                    THEN guarded + Rate(p.edgeGenerationEnergy, infl) ELSE guarded
    IN  IF cell.crystalState = "ALPHA"
        THEN supplied - Rate(supplied, p.mantleAbsorption) ELSE supplied

MantlePhaseA(g, p, noise, infl) ==
    [c \in Cells |->
        IF g[c].exists
        THEN [g[c] EXCEPT !.mantleEnergy = NewMantleEnergy(g, p, c, noise, infl)]
        ELSE g[c]]

\* the shrink arm firing at half the accumulated deficit
ShrinkQueuedEarly(g, p, c) ==
    /\ g[c].exists
    /\ DistGt(c, p.minRadius)
    /\ g[c].mantleEnergy < p.shrinkThreshold
    /\ g[c].shrinkAccumulator + (p.shrinkThreshold - g[c].mantleEnergy) > Q(100)

\* Phase B, shrink arm: the cell is queued for 'shrink'
ShrinkQueued(g, p, c) ==
    /\ g[c].exists
    /\ DistGt(c, p.minRadius)
    /\ g[c].mantleEnergy < p.shrinkThreshold
    /\ g[c].shrinkAccumulator + (p.shrinkThreshold - g[c].mantleEnergy) > Q(200)

NewShrinkAccumulator(g, p, c) ==
    IF DistGt(c, p.minRadius)
    THEN IF g[c].mantleEnergy < p.shrinkThreshold
         THEN IF ShrinkQueued(g, p, c) THEN 0
              ELSE g[c].shrinkAccumulator + (p.shrinkThreshold - g[c].mantleEnergy)
         ELSE Max(0, g[c].shrinkAccumulator - Q(2))
    ELSE 0

\* Phase B, expand arm
ExpandArmed(g, p, c) ==
    /\ g[c].exists
    /\ g[c].mantleEnergy > p.expansionThreshold
    /\ DistLt(c, p.maxRadius)

ExpandFires(g, p, c) ==
    /\ ExpandArmed(g, p, c)
    /\ g[c].expansionAccumulator + (g[c].mantleEnergy - p.expansionThreshold) > Q(100)

VoidNeighbors(g, c) ==
    LET isVoid(n) == ~g[n].exists
    IN  SelectSeq(getNeighbors(g, c, TRUE), isVoid)

\* the cells that push an 'expand' change this tick
Expanders(g, p) == {c \in Cells : ExpandFires(g, p, c) /\ Len(VoidNeighbors(g, c)) > 0}

NewExpansionAccumulator(g, p, c) ==
    IF ExpandArmed(g, p, c)
    THEN IF ExpandFires(g, p, c) THEN 0
         ELSE g[c].expansionAccumulator + (g[c].mantleEnergy - p.expansionThreshold)
    ELSE Max(0, g[c].expansionAccumulator - Q(1))

\* Phase B sweep (in place on the land cells), then the terrainChanges queue
\* applied; target[c] is the void neighbour the expander c drew
MantlePhaseB(g, p, target) ==
    LET shrinks == {c \in Cells : ShrinkQueued(g, p, c)}
        expands == {target[c] : c \in DOMAIN target}
        swept == [c \in Cells |->
                    IF g[c].exists
                    THEN [g[c] EXCEPT
                            !.shrinkAccumulator = NewShrinkAccumulator(g, p, c),
                            !.expansionAccumulator = NewExpansionAccumulator(g, p, c),
                            !.mantleEnergy = IF c \in DOMAIN target THEN @ - Q(20) ELSE @]
                    ELSE g[c]]
    IN  [c \in Cells |->
            IF c \in expands
            THEN [swept[c] EXCEPT !.exists = TRUE, !.mantleEnergy = Q(30)]
            ELSE IF c \in shrinks
            THEN [swept[c] EXCEPT !.exists = FALSE, !.mantleEnergy = 0,
                                  !.crystalState = "EMPTY"]
            ELSE swept[c]]

updateMantleLayer(g, p, noise, infl, target) == MantlePhaseB(MantlePhaseA(g, p, noise, infl), p, target)

ExpandTargets(g, p) ==
    ChoiceFns([c \in Expanders(g, p) |-> Range(VoidNeighbors(g, c))])

---------------------------------------------------------------------------
(* updateClimateLayer *)

AvgTemp(g, c) ==
    LET neighbors == getNeighbors(g, c, FALSE)
    IN  AvgOf([i \in 1..Len(neighbors) |-> g[neighbors[i]].temperature])

NewTemperature(g, p, c) ==
    LET cell == g[c]
        avgTemp == AvgTemp(g, c)
        targetTemp == Q(-100) + (cell.mantleEnergy * p.mantleHeatFactor) \div 100
    IN  IF IsNaN(avgTemp) \/ IsNaN(cell.temperature) THEN NaN
        ELSE LET diffused == (cell.temperature * (PerMille - p.diffusionRate)
                              + avgTemp * p.diffusionRate) \div PerMille
                 heated == (diffused * 9 + targetTemp) \div 10
             IN  heated - 5

\* tempDiff > thunderstormThreshold: the land cells on which the storm draw
\* (Math.random() < 0.1) decides
StormCandidates(g, p) ==
    {c \in Cells : /\ g[c].exists
                   /\ ~IsNaN(AvgTemp(g, c)) /\ ~IsNaN(g[c].temperature)
                   /\ Abs(g[c].temperature - AvgTemp(g, c)) > p.thunderstormThreshold}

updateClimateLayer(g, p, storms) ==
    [c \in Cells |->
        IF g[c].exists
        THEN [g[c] EXCEPT !.temperature = NewTemperature(g, p, c),
                          !.hasThunderstorm = (c \in storms)]
        ELSE g[c]]

---------------------------------------------------------------------------
(* updateCrystalLayer *)

IsCrystal(cell) == cell.crystalState = "ALPHA" \/ cell.crystalState = "BETA"

\* sub-pass 1 on a cell whose storm flag is not looked at
MetabolizeNoStorm(p, cell) ==
    LET absorbs == cell.mantleEnergy > Q(10)
        absorbed == IF absorbs THEN Rate(cell.mantleEnergy, p.mantleAbsorption) ELSE 0
        demand == IF cell.crystalState = "ALPHA" THEN p.alphaEnergyDemand
                  ELSE p.betaEnergyDemand
        raw == cell.storedEnergy + absorbed - demand
        capped == IF raw > p.maxCrystalEnergy THEN p.maxCrystalEnergy ELSE raw
    IN  IF capped <= 0 /\ cell.crystalState = "ALPHA"
        THEN [cell EXCEPT !.isAbsorbing = absorbs, !.crystalState = "BETA",
                          !.storedEnergy = 0]
        ELSE [cell EXCEPT !.isAbsorbing = absorbs, !.storedEnergy = capped]

\* sub-pass 1 on a cell, with exhausted Beta cells removed
MetabolizeBetaDecays(p, cell) ==
    LET absorbs == cell.mantleEnergy > Q(10)
        absorbed == IF absorbs THEN Rate(cell.mantleEnergy, p.mantleAbsorption) ELSE 0
        storm == IF cell.hasThunderstorm THEN p.thunderstormEnergy ELSE 0
        demand == IF cell.crystalState = "ALPHA" THEN p.alphaEnergyDemand
                  ELSE p.betaEnergyDemand
        raw == cell.storedEnergy + absorbed + storm - demand
        capped == IF raw > p.maxCrystalEnergy THEN p.maxCrystalEnergy ELSE raw
    IN  IF capped <= 0
        THEN [cell EXCEPT !.isAbsorbing = absorbs,
                          !.crystalState = IF @ = "ALPHA" THEN "BETA" ELSE "EMPTY",
                          !.storedEnergy = 0]
        ELSE [cell EXCEPT !.isAbsorbing = absorbs, !.storedEnergy = capped]

\* sub-pass 1 on one cell
Metabolize(p, cell) ==
    LET absorbs == cell.mantleEnergy > Q(10)
        absorbed == IF absorbs THEN Rate(cell.mantleEnergy, p.mantleAbsorption) ELSE 0
        storm == IF cell.hasThunderstorm THEN p.thunderstormEnergy ELSE 0
        demand == IF cell.crystalState = "ALPHA" THEN p.alphaEnergyDemand
                  ELSE p.betaEnergyDemand
        raw == cell.storedEnergy + absorbed + storm - demand
        capped == IF raw > p.maxCrystalEnergy THEN p.maxCrystalEnergy ELSE raw
    IN  IF capped <= 0 /\ cell.crystalState = "ALPHA"
        THEN [cell EXCEPT !.isAbsorbing = absorbs, !.crystalState = "BETA",
                          !.storedEnergy = 0]
        ELSE [cell EXCEPT !.isAbsorbing = absorbs, !.storedEnergy = capped]

CrystalMetabolism(g, p) ==
    [c \in Cells |->
        IF g[c].exists /\ IsCrystal(g[c]) THEN Metabolize(p, g[c]) ELSE g[c]]

\* sub-pass 2: what the Alpha cell c sends to its Alpha neighbour n
TransferAmount(g, p, c, n) ==
    LET diff == g[c].storedEnergy - g[n].storedEnergy
        byRate == (diff * p.energySharingRate) \div (10 * PerMille)
        limited == IF byRate > Q(5) THEN Q(5) ELSE byRate
        amount == IF g[c].storedEnergy - limited < g[n].storedEnergy + limited
                  THEN (diff * 4) \div 10 ELSE limited
    IN  IF g[c].crystalState = "ALPHA" /\ g[n].crystalState = "ALPHA"
           /\ n \in Range(getNeighbors(g, c, FALSE))
           /\ g[c].storedEnergy > g[n].storedEnergy /\ amount > 1
        THEN amount ELSE 0

ReceivedAmount(p, amount) == (amount * (PerMille - p.energyDecayRate)) \div PerMille

RECURSIVE SumOver(_, _)
SumOver(S, f) ==
    IF S = {} THEN 0
    ELSE LET e == CHOOSE x \in S : TRUE IN f[e] + SumOver(S \ {e}, f)

\* energyChanges[y][x]
EnergyChange(g, p, c) ==
    LET sent == [n \in Cells |-> TransferAmount(g, p, c, n)]
        got == [n \in Cells |-> ReceivedAmount(p, TransferAmount(g, p, n, c))]
    IN  SumOver(Cells, got) - SumOver(Cells, sent)

CrystalSharing(g, p) ==
    [c \in Cells |->
        IF g[c].crystalState = "ALPHA"
        THEN LET e == g[c].storedEnergy + EnergyChange(g, p, c)
             IN  [g[c] EXCEPT !.storedEnergy =
                    IF e < 0 THEN 0 ELSE IF e > p.maxCrystalEnergy THEN p.maxCrystalEnergy ELSE e]
        ELSE g[c]]

\* the Alpha cells of g in every visiting order
AlphaOrders(g) ==
    LET alpha == {c \in Cells : g[c].crystalState = "ALPHA"}
        k == Cardinality(alpha)
    IN  {o \in [1..k -> alpha] : \A i, j \in 1..k : o[i] = o[j] => i = j}

Reverse(s) == [i \in 1..Len(s) |-> s[Len(s) + 1 - i]]

\* the (cell, neighbour) pairs of the double loop, the cells in the order o,
\* the neighbours of each as getNeighbors lists them or backwards
RECURSIVE FlowPairs(_, _, _)
FlowPairs(g, o, backwards) ==
    IF o = <<>> THEN <<>>
    ELSE LET isAlpha(n) == g[n].crystalState = "ALPHA"
             ns == SelectSeq(getNeighbors(g, Head(o), FALSE), isAlpha)
             pairs == [i \in 1..Len(ns) |-> <<Head(o), ns[i]>>]
         IN  (IF backwards THEN Reverse(pairs) ELSE pairs) \o FlowPairs(g, Tail(o), backwards)

VisitOrders(g) == {FlowPairs(g, o, b) : o \in AlphaOrders(g), b \in BOOLEAN}

\* energyChanges after the pairs were visited in turn: every transfer is
\* computed from the energies of g, the grid the pass started from
RECURSIVE AccumulateFlow(_, _, _, _)
AccumulateFlow(g, p, pairs, energyChanges) ==
    IF pairs = <<>> THEN energyChanges
    ELSE LET c == Head(pairs)[1]
             n == Head(pairs)[2]
             transferAmount == TransferAmount(g, p, c, n)
             sent == [energyChanges EXCEPT ![c] = @ - transferAmount]
             got == [sent EXCEPT ![n] = @ + ReceivedAmount(p, transferAmount)]
         IN  AccumulateFlow(g, p, Tail(pairs), got)

\* the commit of energyChanges, clamped to [0, maxCrystalEnergy]
CommitFlow(g, p, energyChanges) ==
    [c \in Cells |->
        IF g[c].crystalState = "ALPHA"
        THEN LET e == g[c].storedEnergy + energyChanges[c]
             IN  [g[c] EXCEPT !.storedEnergy =
                    IF e < 0 THEN 0 ELSE IF e > p.maxCrystalEnergy THEN p.maxCrystalEnergy ELSE e]
        ELSE g[c]]

\* the pass with every transfer written to the cells at once
RECURSIVE FlowInPlace(_, _, _)
FlowInPlace(g, p, pairs) ==
    IF pairs = <<>> THEN g
    ELSE LET c == Head(pairs)[1]
             n == Head(pairs)[2]
             transferAmount == TransferAmount(g, p, c, n)
             sent == [g EXCEPT ![c].storedEnergy = @ - transferAmount]
             got == [sent EXCEPT ![n].storedEnergy = @ + ReceivedAmount(p, transferAmount)]
         IN  FlowInPlace(got, p, Tail(pairs))

SharingInPlace(g, p, pairs) ==
    CommitFlow(FlowInPlace(g, p, pairs), p, [c \in Cells |-> 0])

\* sub-pass 2 as the code runs it, the pairs visited in the given order
SharingInOrder(g, p, pairs) ==
    CommitFlow(g, p, AccumulateFlow(g, p, pairs, [c \in Cells |-> 0]))

\* sub-pass 3
EmptyNeighbors(g, c) ==
    LET ok(n) == g[n].exists /\ g[n].crystalState = "EMPTY"
    IN  SelectSeq(getNeighbors(g, c, FALSE), ok)

Propagators(g, p) ==
    {c \in Cells : /\ g[c].crystalState = "ALPHA"
                   /\ g[c].storedEnergy > p.expansionCost * 2
                   /\ Len(EmptyNeighbors(g, c)) > 0}

PropagationTargets(g, p) ==
    ChoiceFns([c \in Propagators(g, p) |-> Range(EmptyNeighbors(g, c))])

\* a propagation that seeds Beta cells
CrystalPropagationAsBeta(g, p, target) ==
    LET queued == {target[c] : c \in DOMAIN target}
    IN  [c \in Cells |->
            IF c \in DOMAIN target
            THEN [g[c] EXCEPT !.storedEnergy = @ - p.expansionCost]
            ELSE IF c \in queued /\ g[c].crystalState = "EMPTY"
            THEN [g[c] EXCEPT !.crystalState = "BETA", !.storedEnergy = Q(10)]
            ELSE g[c]]

\* a propagation the parents do not pay for
CrystalPropagationUnpaid(g, p, target) ==
    LET queued == {target[c] : c \in DOMAIN target}
    IN  [c \in Cells |->
            IF c \in queued /\ g[c].crystalState = "EMPTY"
            THEN [g[c] EXCEPT !.crystalState = "ALPHA", !.storedEnergy = Q(10)]
            ELSE g[c]]

\* target[c] is the Empty neighbour the parent c drew
CrystalPropagation(g, p, target) ==
    LET queued == {target[c] : c \in DOMAIN target}
    IN  [c \in Cells |->
            IF c \in DOMAIN target
            THEN [g[c] EXCEPT !.storedEnergy = @ - p.expansionCost]
            ELSE IF c \in queued /\ g[c].crystalState = "EMPTY"
            THEN [g[c] EXCEPT !.crystalState = "ALPHA", !.storedEnergy = Q(10)]
            ELSE g[c]]

---------------------------------------------------------------------------
(* updateBioLayer: census and scheduled spawns *)

IsBio(cell) == cell.crystalState = "BIO" /\ cell.bioAttributes # NoAttrs

\* speciesSet and humanExists of the census
SpeciesSet(g) == {g[c].bioAttributes.speciesId : c \in {d \in Cells : IsBio(g[d])}}
HumanExists(g) == 0 \in SpeciesSet(g)

\* the human template of spawnBio
HumanAttrs(p) ==
    [ present |-> TRUE,
      minTemp |-> p.humanMinTemp, maxTemp |-> p.humanMaxTemp,
      survivalMinTemp |-> p.humanSurvivalMinTemp,
      survivalMaxTemp |-> p.humanSurvivalMaxTemp,
      prosperityGrowth |-> p.humanProsperityGrowth,
      prosperityDecay |-> p.humanProsperityDecay,
      expansionThreshold |-> p.humanExpansionThreshold,
      miningReward |-> p.humanMiningReward,
      migrationThreshold |-> p.humanMigrationThreshold,
      alphaRadiationDamage |-> p.alphaRadiationDamage,
      speciesId |-> 0 ]

\* spawnBio without humanSpawnPoint: land Empty cells in the human band
HumanCandidates(g, p) ==
    {c \in Cells : /\ g[c].exists /\ g[c].crystalState = "EMPTY"
                   /\ NLe(p.humanMinTemp, g[c].temperature)
                   /\ NLe(g[c].temperature, p.humanMaxTemp)}

\* the cells spawnBio may write: the spawn point if set, else a candidate
SpawnBioTargets(g, p) ==
    IF p.humanSpawnPoint # NoPoint THEN {p.humanSpawnPoint} ELSE HumanCandidates(g, p)

\* spawnBio with a humanSpawnPoint outside the grid: this.grid[targetY] is
\* undefined, or the cell is, and the write throws a TypeError
SpawnBioThrows(p) ==
    /\ p.humanSpawnPoint # NoPoint
    /\ ~InBounds(p.humanSpawnPoint[1], p.humanSpawnPoint[2])

\* spawnBio that leaves an occupied cell alone
spawnBioIfEmpty(g, p, target, prosperity) ==
    IF g[target].crystalState # "EMPTY" THEN g
    ELSE [g EXCEPT ![target] = [@ EXCEPT !.crystalState = "BIO",
                                         !.prosperity = prosperity,
                                         !.storedEnergy = 0,
                                         !.isMining = FALSE,
                                         !.bioAttributes = HumanAttrs(p)]]

\* spawnBio that raises land under the settlement
spawnBioOnNewLand(g, p, target, prosperity) ==
    [g EXCEPT ![target] = [@ EXCEPT !.exists = TRUE,
                                    !.crystalState = "BIO",
                                    !.prosperity = prosperity,
                                    !.storedEnergy = 0,
                                    !.isMining = FALSE,
                                    !.bioAttributes = HumanAttrs(p)]]

spawnBio(g, p, target, prosperity) ==
    [g EXCEPT ![target] = [@ EXCEPT !.crystalState = "BIO",
                                    !.prosperity = prosperity,
                                    !.storedEnergy = 0,
                                    !.isMining = FALSE,
                                    !.bioAttributes = HumanAttrs(p)]]

\* spawnRandomSpecies: land Empty cells with no Alpha within 3 cells
SpeciesCandidates(g) ==
    {c \in Cells :
        /\ g[c].exists /\ g[c].crystalState = "EMPTY"
        /\ \A d \in Cells : (Abs(d[1] - c[1]) <= 3 /\ Abs(d[2] - c[2]) <= 3)
                              => g[d].crystalState # "ALPHA"}

\* Math.floor(Math.random() * 100000) + 1
SpeciesIdDraws == {1, 2}
\* Math.random() of the attribute draws, in thousandths
RandomDraws == {0, 500}

\* val * (0.5 + Math.random())
Randomize(val, r) == Rate(val, 500 + r)

spawnRandomSpecies(g, p, target, id, r) ==
    [g EXCEPT ![target] = [@ EXCEPT
        !.crystalState = "BIO",
        !.prosperity = Q(50),
        !.bioAttributes =
            [ present |-> TRUE,
              minTemp |-> p.humanMinTemp + Rate(Q(20), r - 500),
              maxTemp |-> p.humanMaxTemp + Rate(Q(20), r - 500),
              survivalMinTemp |-> p.humanSurvivalMinTemp,
              survivalMaxTemp |-> p.humanSurvivalMaxTemp,
              prosperityGrowth |-> Randomize(p.humanProsperityGrowth, r),
              prosperityDecay |-> Randomize(p.humanProsperityDecay, r),
              expansionThreshold |-> Randomize(p.humanExpansionThreshold, r),
              miningReward |-> Randomize(p.humanMiningReward, r),
              migrationThreshold |-> Randomize(p.humanMigrationThreshold, r),
              alphaRadiationDamage |-> p.alphaRadiationDamage,
              speciesId |-> id ]]]

\* x || d of JavaScript for a number x
OrDefault(x, d) == IF x = 0 THEN d ELSE x

AutoSpawnDue(g, p, t) ==
    /\ Cardinality(SpeciesSet(g)) < OrDefault(p.bioAutoSpawnCount, 5)
    /\ t % OrDefault(p.bioAutoSpawnInterval, 10) = 0

\* the human lifecycle branch taken at the census
FirstSpawnDue(g, first, t) == ~HumanExists(g) /\ first /\ t >= 50
RespawnDue(g, p, first, ext, t) ==
    /\ ~HumanExists(g) /\ ~first
    /\ t - (IF ext = Null THEN t ELSE ext) >= OrDefault(p.humanRespawnDelay, 20)
HumanSpawnDue(g, p, first, ext, t) == FirstSpawnDue(g, first, t) \/ RespawnDue(g, p, first, ext, t)

NewIsFirstSpawn(g, first, t) ==
    IF HumanExists(g) THEN FALSE
    ELSE IF first THEN ~(t >= 50) ELSE FALSE

\* the extinction clock started also before the first spawn
NewBioExtinctionStepAlways(g, p, first, ext, t) ==
    IF HumanExists(g) THEN Null
    ELSE IF first /\ t >= 50 THEN ext
    ELSE IF RespawnDue(g, p, first, ext, t) THEN Null
    ELSE IF ext = Null THEN t ELSE ext

NewBioExtinctionStep(g, p, first, ext, t) ==
    IF HumanExists(g) THEN Null
    ELSE IF first THEN ext
    ELSE IF RespawnDue(g, p, first, ext, t) THEN Null
    ELSE IF ext = Null THEN t ELSE ext

---------------------------------------------------------------------------
(* updateBioLayer: the per-cell sweep *)

\* distributeExtinctionBonus, written straight into the grid
distributeExtinctionBonus(g, c, bonus) ==
    LET neighbors == getNeighbors(g, c, FALSE)
        bonusPerNeighbor == IF Len(neighbors) = 0 THEN 0 ELSE bonus \div Len(neighbors)
    IN  [n \in Cells |->
            IF n \in Range(neighbors)
            THEN IF IsCrystal(g[n])
                 THEN [g[n] EXCEPT !.storedEnergy = @ + bonusPerNeighbor]
                 ELSE IF g[n].crystalState = "BIO"
                 THEN [g[n] EXCEPT !.prosperity = @ + bonusPerNeighbor]
                 ELSE g[n]
            ELSE g[n]]

\* A. outside the survival band
OutOfSurvivalBand(cell) ==
    \/ NLt(cell.temperature, cell.bioAttributes.survivalMinTemp)
    \/ NLt(cell.bioAttributes.survivalMaxTemp, cell.temperature)

NeighborsWith(g, c, state) ==
    LET ok(n) == g[n].crystalState = state
    IN  SelectSeq(getNeighbors(g, c, FALSE), ok)

BioNeighbors(g, c) ==
    LET ok(n) == IsBio(g[n])
    IN  SelectSeq(getNeighbors(g, c, FALSE), ok)

\* prosperityChange with minProsperityGrowth applied to humans as well
ProsperityChangeFloorsAll(g, p, c) ==
    LET cell == g[c]
        attrs == cell.bioAttributes
        inBand == NLe(attrs.minTemp, cell.temperature) /\ NLe(cell.temperature, attrs.maxTemp)
        growth == Max(attrs.prosperityGrowth, p.minProsperityGrowth)
        climate == IF inBand THEN growth ELSE -attrs.prosperityDecay
        bioN == BioNeighbors(g, c)
        social == [i \in 1..Len(bioN) |->
                     IF g[bioN[i]].bioAttributes.speciesId = attrs.speciesId
                     THEN p.sameSpeciesBonus
                     ELSE IF cell.prosperity < g[bioN[i]].prosperity
                     THEN -p.competitionPenalty ELSE 0]
        alphaCount == Len(NeighborsWith(g, c, "ALPHA"))
        damage == Max(attrs.prosperityGrowth + 2, p.alphaRadiationDamage)
        mined == IF Len(NeighborsWith(g, c, "BETA")) > 0 THEN attrs.miningReward ELSE 0
    IN  climate + SumSeq(social) - alphaCount * damage + mined

\* B and C. prosperityChange of the settlement on c
ProsperityChange(g, p, c) ==
    LET cell == g[c]
        attrs == cell.bioAttributes
        inBand == NLe(attrs.minTemp, cell.temperature) /\ NLe(cell.temperature, attrs.maxTemp)
        growth == IF attrs.speciesId # 0
                  THEN Max(attrs.prosperityGrowth, p.minProsperityGrowth)
                  ELSE attrs.prosperityGrowth
        climate == IF inBand THEN growth ELSE -attrs.prosperityDecay
        bioN == BioNeighbors(g, c)
        social == [i \in 1..Len(bioN) |->
                     IF g[bioN[i]].bioAttributes.speciesId = attrs.speciesId
                     THEN p.sameSpeciesBonus
                     ELSE IF cell.prosperity < g[bioN[i]].prosperity
                     THEN -p.competitionPenalty ELSE 0]
        alphaCount == Len(NeighborsWith(g, c, "ALPHA"))
        damage == Max(attrs.prosperityGrowth + 2, p.alphaRadiationDamage)
        mined == IF Len(NeighborsWith(g, c, "BETA")) > 0 THEN attrs.miningReward ELSE 0
    IN  climate + SumSeq(social) - alphaCount * damage + mined

NewProsperity(g, p, c) == g[c].prosperity + ProsperityChange(g, p, c)

IsMiner(g, c) == Len(NeighborsWith(g, c, "BETA")) > 0

\* E. expansion is performed
Expands(g, p, c) ==
    /\ NewProsperity(g, p, c) > g[c].bioAttributes.expansionThreshold
    /\ Len(EmptyNeighbors(g, c)) > 0

\* F. migration is performed
Migrates(g, p, c) ==
    /\ NewProsperity(g, p, c) < g[c].bioAttributes.migrationThreshold
    /\ Len(EmptyNeighbors(g, c)) > 0

\* |n.temperature - (minTemp + maxTemp) / 2|, in twentieths; NaN if undefined
TempDiff2(g, attrs, n) ==
    IF IsNaN(g[n].temperature) THEN NaN
    ELSE Abs(2 * g[n].temperature - (attrs.minTemp + attrs.maxTemp))

\* bestTarget: the first Empty neighbour no later one is strictly better than
RECURSIVE BestOf(_, _, _, _)
BestOf(g, attrs, best, rest) ==
    IF rest = <<>> THEN best
    ELSE IF NLt(TempDiff2(g, attrs, Head(rest)), TempDiff2(g, attrs, best))
    THEN BestOf(g, attrs, Head(rest), Tail(rest))
    ELSE BestOf(g, attrs, best, Tail(rest))

BestTarget(g, c) ==
    LET e == EmptyNeighbors(g, c) IN BestOf(g, g[c].bioAttributes, e[1], Tail(e))

\* the mutated genome
MutationKeys == {"minTemp", "maxTemp", "prosperityGrowth", "prosperityDecay",
                 "expansionThreshold", "miningReward", "migrationThreshold"}

\* at most this many keys mutate in one expansion
MaxMutations == 1

\* per key: 0 (Math.random() >= mutationRate), +1 or -1 (the sign drawn)
MutationDraws(p) ==
    LET all == [MutationKeys -> {-1, 0, 1}]
        count(m) == Cardinality({k \in MutationKeys : m[k] # 0})
    IN  IF p.mutationRate <= 0 THEN {[k \in MutationKeys |-> 0]}
        ELSE IF p.mutationRate >= PerMille THEN {m \in all : count(m) = 7}
        ELSE {m \in all : count(m) <= MaxMutations}

\* Math.floor(Math.random() * 100000)
NewSpeciesIdDraws == {0, 1, 2}

\* the mutation with every mutated child founding a species
MutatedAsNewSpecies(p, attrs, m, newId) ==
    LET change(k) == m[k] * ((attrs[k] * p.mutationStrength) \div PerMille)
        isNewSpecies == \E k \in MutationKeys : m[k] # 0
    IN  [k \in DOMAIN attrs |->
            IF k \in MutationKeys THEN attrs[k] + change(k)
            ELSE IF k = "speciesId" /\ isNewSpecies
                 THEN (IF newId # attrs[k] THEN newId ELSE newId + 1)
            ELSE attrs[k]]

Mutated(p, attrs, m, newId) ==
    LET change(k) == m[k] * ((attrs[k] * p.mutationStrength) \div PerMille)
        exact(k) == m[k] * attrs[k] * p.mutationStrength
        isNew(k) == m[k] # 0 /\ Abs(exact(k)) > Abs(attrs[k]) * p.newSpeciesThreshold
        isNewSpecies == \E k \in MutationKeys : isNew(k)
    IN  [k \in DOMAIN attrs |->
            IF k \in MutationKeys THEN attrs[k] + change(k)
            ELSE IF k = "speciesId" /\ isNewSpecies THEN newId
            ELSE attrs[k]]

Change(c, type, prosperity, attrs) ==
    [cell |-> c, type |-> type, prosperity |-> prosperity, attrs |-> attrs]

\* the visit without the survival check A (no early 'continue')
VisitChangesUnchecked(g, p, c, mineTarget, expandTarget, m, newId) ==
    LET attrs == g[c].bioAttributes
        newProsperity == NewProsperity(g, p, c)
    IN  (IF IsMiner(g, c) THEN <<Change(mineTarget, "STATE", 0, NoAttrs)>> ELSE <<>>)
        \o <<Change(c, IF IsMiner(g, c) THEN "MINING_ON" ELSE "MINING_OFF", 0, NoAttrs),
             Change(c, "PROSPERITY", newProsperity, NoAttrs)>>
        \o (IF newProsperity <= 0 THEN <<Change(c, "STATE", 0, NoAttrs)>> ELSE <<>>)

\* the changes one settlement pushes, in order
VisitChanges(g, p, c, mineTarget, expandTarget, m, newId) ==
    LET attrs == g[c].bioAttributes
        newProsperity == NewProsperity(g, p, c)
        dead == <<Change(c, "STATE", 0, NoAttrs)>>
    IN  IF OutOfSurvivalBand(g[c]) THEN dead
        ELSE (IF IsMiner(g, c) THEN <<Change(mineTarget, "STATE", 0, NoAttrs)>> ELSE <<>>)
             \o <<Change(c, IF IsMiner(g, c) THEN "MINING_ON" ELSE "MINING_OFF", 0, NoAttrs),
                  Change(c, "PROSPERITY", newProsperity, NoAttrs)>>
             \o (IF newProsperity <= 0 THEN dead
                 ELSE (IF Expands(g, p, c)
                       THEN <<Change(expandTarget, "NEW_BIO", Q(30), Mutated(p, attrs, m, newId)),
                              Change(c, "PROSPERITY", newProsperity - Q(30), NoAttrs)>>
                       ELSE <<>>)
                      \o (IF Migrates(g, p, c)
                          THEN <<Change(BestTarget(g, c), "MIGRATE", newProsperity, attrs),
                                 Change(c, "STATE", 0, NoAttrs)>>
                          ELSE <<>>))

\* the settlement on c dies in this visit
DiesNow(g, p, c) == OutOfSurvivalBand(g[c]) \/ NewProsperity(g, p, c) <= 0

\* the grid after the visit of c (only the extinction bonus is written at once)
VisitGrid(g, p, c) ==
    IF DiesNow(g, p, c) THEN distributeExtinctionBonus(g, c, p.extinctionBonus) ELSE g

\* the commit pass
ApplyChange(g, ch) ==
    LET cell == g[ch.cell]
    IN  IF ch.type = "STATE"
        THEN [g EXCEPT ![ch.cell] = [cell EXCEPT !.crystalState = "EMPTY", !.prosperity = 0,
                                                 !.bioAttributes = NoAttrs]]
        ELSE IF ch.type = "PROSPERITY"
        THEN [g EXCEPT ![ch.cell] = [cell EXCEPT !.prosperity = ch.prosperity]]
        ELSE IF ch.type = "MINING_ON" \/ ch.type = "MINING_OFF"
        THEN [g EXCEPT ![ch.cell] = [cell EXCEPT !.isMining = (ch.type = "MINING_ON")]]
        ELSE IF cell.crystalState = "EMPTY"
        THEN [g EXCEPT ![ch.cell] = [cell EXCEPT !.crystalState = "BIO",
                                                 !.prosperity = ch.prosperity,
                                                 !.bioAttributes = ch.attrs]]
        ELSE g

RECURSIVE ApplyChanges(_, _)
ApplyChanges(g, q) ==
    IF q = <<>> THEN g ELSE ApplyChanges(ApplyChange(g, Head(q)), Tail(q))

\* the next settlement of the sweep at or after position i
RECURSIVE NextBio(_, _)
NextBio(g, i) ==
    IF i > Width * Height THEN i
    ELSE IF IsBio(g[CellSeq[i]]) THEN i
    ELSE NextBio(g, i + 1)

---------------------------------------------------------------------------
(* The engine as a state machine *)

\* the steps at which the exploration starts: construction (0), and the
\* steps just before the schedule constants 50 and 1000
StartSteps == {0, 49, 998}
\* the steps two before the first automatic species spawn (10), and just
\* before the first human spawn (50) and the first respawn after a failed
\* first spawn (71)
LifeSteps == {8, 49, 69}
\* two steps before the first automatic species spawn
SpeciesSteps == {8}

\* isFirstSpawn and bioExtinctionStep of an engine that has idled on the
\* fresh grid up to step t: no spawn target, so the first spawn fails at 50,
\* the extinction is recorded at 51, 72, ... and cleared again by the failed
\* respawn 20 ticks later
IdleFirstSpawn(t) == t < 50
IdleExtinctionStep(t) ==
    IF t <= 50 THEN Null
    ELSE LET k == (t - 51) % 21 IN IF k = 20 THEN Null ELSE t - k

engineState == <<timeStep, cycleCount, bioExtinctionStep, isFirstSpawn>>

\* new SimulationEngine(width, height, params); a start at a later step is
\* the engine idled there under a block that leaves the fresh grid fixed
InitAt(B, S) ==
    /\ blocks = B
    /\ params \in B
    /\ timeStep \in S
    /\ \E e0 \in InitEnergies :
          /\ (timeStep # 0 => e0 = Q(50))
          /\ grid = initializeGrid(e0)
    /\ cycleCount = timeStep \div 1000
    /\ bioExtinctionStep = IdleExtinctionStep(timeStep)
    /\ isFirstSpawn = IdleFirstSpawn(timeStep)
    /\ pc = "idle"
    /\ cursor = 0
    /\ changes = <<>>
    /\ hostOps = 0

InitWith(B) == InitAt(B, StartSteps)

\* Home: engine.params = params
ReplaceParams ==
    /\ pc = "idle" /\ hostOps < MaxHostOps
    /\ \E p \in blocks \ {params} : params' = p
    /\ hostOps' = hostOps + 1
    /\ UNCHANGED <<blocks, grid, engineState, pc, cursor, changes>>

\* the cycle counter bumped one tick late
NewCycleCountLate(t, cc) == IF t % 1000 = 1 THEN cc + 1 ELSE cc

\* update(): if (this.timeStep % 1000 === 0) this.cycleCount++, after timeStep++
NewCycleCount(t, cc) == IF t % 1000 = 0 THEN cc + 1 ELSE cc

\* update(): timeStep++ and the cycle counter
UpdateBegin ==
    /\ pc = "idle"
    /\ \E s \in StartSteps \cup LifeSteps \cup SpeciesSteps :
          s <= timeStep /\ timeStep < s + MaxTicks
    /\ timeStep' = timeStep + 1
    /\ cycleCount' = NewCycleCount(timeStep', cycleCount)
    /\ pc' = "mantle"
    /\ UNCHANGED <<blocks, grid, params, bioExtinctionStep, isFirstSpawn, cursor, changes, hostOps>>

Mantle ==
    /\ pc = "mantle"
    /\ \E noise \in NoiseDraws :
       \E infl \in (IF params.edgeGenerationEnergy = 0 THEN {0} ELSE InfluenceDraws) :
       \E target \in ExpandTargets(MantlePhaseA(grid, params, noise, infl), params) :
          grid' = updateMantleLayer(grid, params, noise, infl, target)
    /\ pc' = "climate"
    /\ UNCHANGED <<blocks, params, engineState, cursor, changes, hostOps>>

Climate ==
    /\ pc = "climate"
    /\ \E storms \in {S \in SUBSET StormCandidates(grid, params) : Cardinality(S) <= MaxStorms} :
          grid' = updateClimateLayer(grid, params, storms)
    /\ pc' = "metabolism"
    /\ UNCHANGED <<blocks, params, engineState, cursor, changes, hostOps>>

Metabolism ==
    /\ pc = "metabolism"
    /\ grid' = CrystalMetabolism(grid, params)
    /\ pc' = "sharing"
    /\ UNCHANGED <<blocks, params, engineState, cursor, changes, hostOps>>

Sharing ==
    /\ pc = "sharing"
    /\ grid' = CrystalSharing(grid, params)
    /\ pc' = "propagation"
    /\ UNCHANGED <<blocks, params, engineState, cursor, changes, hostOps>>

Propagation ==
    /\ pc = "propagation"
    /\ \E target \in PropagationTargets(grid, params) :
          grid' = CrystalPropagation(grid, params, target)
    /\ pc' = "census"
    /\ UNCHANGED <<blocks, params, engineState, cursor, changes, hostOps>>

\* census, random-species spawn, human lifecycle
BioSpawn ==
    /\ pc = "census"
    /\ \E st \in (IF AutoSpawnDue(grid, params, timeStep) /\ SpeciesCandidates(grid) # {}
                  THEN SpeciesCandidates(grid) ELSE {<<0, 0>>}) :
       \E id \in (IF AutoSpawnDue(grid, params, timeStep) /\ SpeciesCandidates(grid) # {}
                  THEN SpeciesIdDraws ELSE {1}) :
       \E r \in (IF AutoSpawnDue(grid, params, timeStep) /\ SpeciesCandidates(grid) # {}
                 THEN RandomDraws ELSE {0}) :
          LET g1 == IF AutoSpawnDue(grid, params, timeStep) /\ SpeciesCandidates(grid) # {}
                    THEN spawnRandomSpecies(grid, params, st, id, r) ELSE grid
              due == HumanSpawnDue(grid, params, isFirstSpawn, bioExtinctionStep, timeStep)
          IN  IF due /\ SpawnBioThrows(params)
              THEN \* the TypeError leaves update(): what was written stays
                   /\ grid' = g1
                   /\ isFirstSpawn' = isFirstSpawn
                   /\ bioExtinctionStep' =
                         IF ~isFirstSpawn /\ bioExtinctionStep = Null
                         THEN timeStep ELSE bioExtinctionStep
                   /\ cursor' = 0
                   /\ pc' = "error"
              ELSE /\ \E ht \in (IF due /\ SpawnBioTargets(g1, params) # {}
                                  THEN SpawnBioTargets(g1, params) ELSE {<<0, 0>>}) :
                          /\ grid' = IF due /\ SpawnBioTargets(g1, params) # {}
                                     THEN spawnBio(g1, params, ht, Q(100)) ELSE g1
                          /\ cursor' = NextBio(grid', 1)
                   /\ isFirstSpawn' = NewIsFirstSpawn(grid, isFirstSpawn, timeStep)
                   /\ bioExtinctionStep' = NewBioExtinctionStep(grid, params, isFirstSpawn,
                                                                bioExtinctionStep, timeStep)
                   /\ pc' = "sweep"
    /\ changes' = <<>>
    /\ UNCHANGED <<blocks, params, timeStep, cycleCount, hostOps>>

\* the sweep visits the next settlement, or, past the last one, commits
BioSweep ==
    /\ pc = "sweep"
    /\ IF cursor <= Width * Height
       THEN LET c == CellSeq[cursor]
                out == OutOfSurvivalBand(grid[c])
            IN  /\ \E mt \in (IF ~out /\ IsMiner(grid, c)
                              THEN Range(NeighborsWith(grid, c, "BETA")) ELSE {c}) :
                   \E et \in (IF ~out /\ Expands(grid, params, c)
                              THEN Range(EmptyNeighbors(grid, c)) ELSE {c}) :
                   \E m \in (IF ~out /\ Expands(grid, params, c)
                             THEN MutationDraws(params) ELSE {[k \in MutationKeys |-> 0]}) :
                   \E id \in (IF ~out /\ Expands(grid, params, c)
                                 /\ params.mutationStrength > params.newSpeciesThreshold
                              THEN NewSpeciesIdDraws ELSE {0}) :
                      changes' = changes \o VisitChanges(grid, params, c, mt, et, m, id)
                /\ grid' = VisitGrid(grid, params, c)
                /\ cursor' = NextBio(grid, cursor + 1)
                /\ pc' = pc
       ELSE /\ grid' = ApplyChanges(grid, changes)
            /\ changes' = <<>>
            /\ cursor' = 0
            /\ pc' = "idle"
    /\ UNCHANGED <<blocks, params, engineState, hostOps>>

\* Home.applyBrush, tool 'spawn_point': a click on a cell of the grid
SetSpawnPoint ==
    /\ pc = "idle" /\ hostOps < MaxHostOps
    /\ \E c \in Cells :
          /\ InBounds(c[1], c[2])
          /\ params' = [params EXCEPT !.humanSpawnPoint = c]
    /\ hostOps' = hostOps + 1
    /\ UNCHANGED <<blocks, grid, engineState, pc, cursor, changes>>

\* the brush size of the destroy tool (useState(3))
BrushSizes == {3}

\* the cells the destroy tool is clicked on: the corner (the brush reaches
\* (1, 1) only) and the left edge (the brush reaches (1, 1) and (1, 2))
ClickCells == {<<0, 0>>, <<0, 1>>}

\* Home.applyBrush, tool 'destroy'
EraseAt(g, click, brushSize) ==
    LET startX == click[1] - (brushSize \div 2)
        startY == click[2] - (brushSize \div 2)
        inBrush(c) == /\ c[1] >= startX /\ c[1] < startX + brushSize
                      /\ c[2] >= startY /\ c[2] < startY + brushSize
    IN  [c \in Cells |->
            IF inBrush(c) /\ g[c].exists /\ g[c].crystalState # "EMPTY"
            THEN [g[c] EXCEPT !.crystalState = "EMPTY", !.storedEnergy = 0]
            ELSE g[c]]

Erase ==
    /\ pc = "idle" /\ hostOps < MaxHostOps
    /\ \E click \in ClickCells : \E b \in BrushSizes : grid' = EraseAt(grid, click, b)
    /\ hostOps' = hostOps + 1
    /\ UNCHANGED <<blocks, params, engineState, pc, cursor, changes>>

Next ==
    \/ ReplaceParams
    \/ SetSpawnPoint
    \/ Erase
    \/ UpdateBegin
    \/ Mantle
    \/ Climate
    \/ Metabolism
    \/ Sharing
    \/ Propagation
    \/ BioSpawn
    \/ BioSweep

\* a session of the terrain: the defaults and the collapsing land
Init == InitWith({DefaultParams, Collapse})
Spec == Init /\ [][Next]_vars

\* a session of the crystal network
InitCrystal == InitWith({Starve, Drain})
SpecCrystal == InitCrystal /\ [][Next]_vars

\* a session of the human lifecycle
InitHuman == InitWith({Harsh, Starve})
SpecHuman == InitHuman /\ [][Next]_vars

\* a session of the human scheduler: no spawn point, a forced one, a stale one
InitLife == InitAt({DefaultParams, Starve, Stale}, LifeSteps)
SpecLife == InitLife /\ [][Next]_vars

\* a session of the random species
InitSpecies == InitAt({Evolve, NoAuto}, SpeciesSteps)
SpecSpecies == InitSpecies /\ [][Next]_vars

\* a session of the write orders: rival settlements, an overdrawn Alpha cell
InitOrder == InitAt({Rival, Surge}, {49})
SpecOrder == InitOrder /\ [][Next]_vars

\* a session of the moving shoreline and the weather: growing land,
\* shrinking land, frozen land
InitTerrain == InitAt({Sprawl, Squall, Frost}, {0})
SpecTerrain == InitTerrain /\ [][Next]_vars

---------------------------------------------------------------------------
(* Properties *)

\* update() has returned and the host has not touched the engine
AfterUpdate == pc = "idle" /\ hostOps = 0

\* C1: after every update(), a cell is BIO exactly when it carries
\* bioAttributes, and every BIO cell has a positive prosperity.
C1_BioIffAttributes ==
    AfterUpdate =>
        \A c \in Cells :
            /\ (grid[c].crystalState = "BIO") <=> grid[c].bioAttributes.present
            /\ (grid[c].crystalState = "BIO") => grid[c].prosperity > 0

\* C2: after every update(), a void cell (exists = false) has no mantle
\* energy, is EMPTY and carries no bioAttributes.
C2_VoidCellsAreBlank ==
    AfterUpdate =>
        \A c \in Cells :
            ~grid[c].exists =>
                /\ grid[c].mantleEnergy = 0
                /\ grid[c].crystalState = "EMPTY"
                /\ ~grid[c].bioAttributes.present

\* C3: after every update(), every cell has 0 <= storedEnergy <= maxCrystalEnergy.
C3_StoredEnergyInRange ==
    AfterUpdate =>
        \A c \in Cells :
            /\ 0 <= grid[c].storedEnergy
            /\ grid[c].storedEnergy <= params.maxCrystalEnergy

\* C4: after construction and after every update(), every cell within
\* minRadius of the centre exists.
C4_CoreExists ==
    pc = "idle" => \A c \in Cells : DistLe(c, params.minRadius) => grid[c].exists

\* C5: each update() increases timeStep by exactly 1 (and nothing else
\* changes it), and in every reachable state cycleCount = floor(timeStep / 1000).
C5_ClockAndCycle ==
    /\ [](cycleCount = timeStep \div 1000)
    /\ [][timeStep' = IF pc = "idle" /\ pc' = "mantle" THEN timeStep + 1 ELSE timeStep]_vars

\* an update() has carried the clock over a multiple of 1000
C5_Witness == pc = "idle" /\ timeStep = 1000 /\ cycleCount = 1

\* C6: after every update(), no ALPHA cell has storedEnergy <= 0: an Alpha
\* cell whose energy reached 0 in the crystal updater, by maintenance or by
\* the transfers it sent, is BETA at the end of the tick.
C6_NoExhaustedAlpha ==
    AfterUpdate =>
        \A c \in Cells : grid[c].crystalState = "ALPHA" => grid[c].storedEnergy > 0

\* the sweep is over and the queued changes are about to be committed
SweepDone == pc = "sweep" /\ cursor > Width * Height

\* C7: a BIO cell whose temperature, as the bio updater sees it, is outside
\* its survival band is EMPTY at the end of the tick, and the sweep queued
\* nothing for it but its death (no mining state, no prosperity).
C7_OutOfBandDies ==
    [][(SweepDone /\ pc' = "idle") =>
          \A c \in Cells :
              (IsBio(grid[c]) /\ OutOfSurvivalBand(grid[c])) =>
                  /\ grid'[c].crystalState = "EMPTY"
                  /\ ~grid'[c].bioAttributes.present
                  /\ grid'[c].isMining = grid[c].isMining
                  /\ \A i \in 1..Len(changes) :
                        changes[i].cell = c => changes[i].type = "STATE"]_vars

\* a settlement outside its survival band has been visited; its death is queued
C7_Witness ==
    /\ SweepDone
    /\ \E c \in Cells :
          /\ IsBio(grid[c]) /\ OutOfSurvivalBand(grid[c])
          /\ \E i \in 1..Len(changes) : changes[i] = Change(c, "STATE", 0, NoAttrs)

\* the i-th queued change is the death of the settlement on its cell (a
\* STATE change of a BIO cell that is not the second half of a migration)
IsDeath(i) ==
    /\ changes[i].type = "STATE"
    /\ IsBio(grid[changes[i].cell])
    /\ (i > 1 => changes[i - 1].type # "MIGRATE")

\* the j-th queued change is the only PROSPERITY change of a settlement that
\* survives the tick where it is
IsSurvivorStaging(j) ==
    /\ changes[j].type = "PROSPERITY"
    /\ IsBio(grid[changes[j].cell])
    /\ \A k \in 1..Len(changes) :
          (k # j /\ changes[k].cell = changes[j].cell) =>
              changes[k].type \in {"MINING_ON", "MINING_OFF"}

\* C8: when a settlement dies, every Bio neighbour retains its share of the
\* extinction bonus at the end of the tick, wherever it stands in the sweep
\* order: a surviving Bio neighbour that was visited before the dying cell
\* ends the tick above the prosperity staged at its own visit.
C8_BonusRetained ==
    [][(SweepDone /\ pc' = "idle" /\ params.extinctionBonus > 0) =>
          \A i, j \in 1..Len(changes) :
              (/\ IsDeath(i) /\ IsSurvivorStaging(j) /\ j < i
               /\ changes[j].cell \in Range(getNeighbors(grid, changes[i].cell, FALSE)))
              => grid'[changes[j].cell].prosperity > changes[j].prosperity]_vars

\* the cell on humanSpawnPoint holds a human settlement
HumanAtSpawnPoint(g) ==
    /\ IsBio(g[params.humanSpawnPoint])
    /\ g[params.humanSpawnPoint].bioAttributes.speciesId = 0

\* C9 (as stated): with humanSpawnPoint inside the minRadius disk, at the end
\* of the first tick with timeStep >= 50 the pointed cell is a BIO cell with
\* speciesId = 0.
C9_HumanAtEndOfTick ==
    (/\ AfterUpdate /\ timeStep = 50
     /\ params.humanSpawnPoint # NoPoint
     /\ DistLe(params.humanSpawnPoint, params.minRadius))
    => HumanAtSpawnPoint(grid)

\* C9 (amended): the spawn stage of that tick makes the pointed cell a human
\* settlement of prosperity 100 whatever it held, and the cell is still one
\* at the end of the tick unless the sweep of the same tick queued a STATE
\* change for it (it died or migrated away).
C9_HumanAfterSpawnStage ==
    /\ [][(/\ pc = "census" /\ FirstSpawnDue(grid, isFirstSpawn, timeStep)
           /\ params.humanSpawnPoint # NoPoint)
          => (/\ HumanAtSpawnPoint(grid')
              /\ grid'[params.humanSpawnPoint].prosperity = Q(100))]_vars
    /\ [][(/\ SweepDone /\ pc' = "idle"
           /\ params.humanSpawnPoint # NoPoint
           /\ HumanAtSpawnPoint(grid)
           /\ \A i \in 1..Len(changes) :
                 changes[i].cell = params.humanSpawnPoint => changes[i].type # "STATE")
          => HumanAtSpawnPoint(grid')]_vars

\* the first spawn has just written the human onto the spawn point
C9_Witness ==
    /\ pc = "sweep" /\ timeStep = 50 /\ changes = <<>> /\ ~isFirstSpawn
    /\ params.humanSpawnPoint # NoPoint
    /\ HumanAtSpawnPoint(grid)
    /\ grid[params.humanSpawnPoint].prosperity = Q(100)

\* C10: after the first spawn, a census that finds no human and at which
\* humanRespawnDelay ticks have passed since the extinction was noticed (the
\* noticing census counts as tick 0) performs a human spawn; with a spawn
\* target available a speciesId-0 settlement is on the grid right after it.
C10_RespawnAfterDelay ==
    [][(/\ pc = "census" /\ ~HumanExists(grid) /\ ~isFirstSpawn
        /\ timeStep - (IF bioExtinctionStep = Null THEN timeStep ELSE bioExtinctionStep)
              >= params.humanRespawnDelay
        /\ SpawnBioTargets(grid, params) # {})
       => HumanExists(grid')]_vars

\* the census of this step runs to its end (spawnBio does not throw)
CensusStep == pc = "census" /\ pc' = "sweep"

\* the step from which the respawn delay is counted at this census
ExtinctionSince == IF bioExtinctionStep = Null THEN timeStep ELSE bioExtinctionStep

C12_NoHumanBeforeFirstSpawn ==
    /\ [][(pc = "census" /\ isFirstSpawn /\ timeStep < 50 /\ ~HumanExists(grid))
           => ~HumanExists(grid')]_vars
    /\ [](isFirstSpawn =>
            \A c \in Cells :
                grid[c].bioAttributes.present => grid[c].bioAttributes.speciesId # 0)

\* C13: a human spawn attempt that finds no eligible cell (no
\* humanSpawnPoint, no land EMPTY cell in the human band) writes no human,
\* and the attempt is made again on the next tick: after the failed attempt
\* the scheduler still holds its spawn condition for step timeStep + 1 (a
\* failed first spawn is not deferred by humanRespawnDelay).
C13_FailedSpawnRetried ==
    [][(/\ CensusStep
        /\ HumanSpawnDue(grid, params, isFirstSpawn, bioExtinctionStep, timeStep)
        /\ params.humanSpawnPoint = NoPoint
        /\ ~HumanExists(grid'))
       => (/\ \A c \in Cells : grid'[c] # grid[c] => grid'[c].bioAttributes.present
           /\ HumanSpawnDue(grid', params, isFirstSpawn', bioExtinctionStep',
                            timeStep + 1))]_vars

\* C14: update() never raises an error, whatever the parameter block and
\* the grid; a humanSpawnPoint outside the grid is a silent no-op.
C14_UpdateNeverThrows == pc # "error"

\* the order of the passes of one update()
PassOrder ==
    { <<"idle", "mantle">>, <<"mantle", "climate">>, <<"climate", "metabolism">>,
      <<"metabolism", "sharing">>, <<"sharing", "propagation">>,
      <<"propagation", "census">>, <<"census", "sweep">>, <<"sweep", "idle">> }

\* C15: within one update(), timeStep is incremented first (before any
\* cell is written), then the mantle, climate, crystal and bio updaters run
\* once each in that order, each on the grid the previous one left: the
\* crystal pass charges the cells this tick's climate pass flagged with a
\* storm, and the bio sweep judges a settlement by the temperature and the
\* crystal neighbours it finds on the grid at its visit.
C15_PassOrder ==
    /\ [][pc' # pc => <<pc, pc'>> \in PassOrder]_vars
    /\ [][(pc = "idle" /\ pc' = "mantle") => (timeStep' = timeStep + 1 /\ grid' = grid)]_vars
    /\ [][(pc # "idle" /\ pc' # "idle") => timeStep' = timeStep]_vars
    /\ [][pc = "metabolism" =>
             \A c \in Cells :
                 (/\ grid[c].exists /\ grid[c].crystalState = "ALPHA"
                  /\ grid[c].hasThunderstorm
                  /\ grid[c].storedEnergy + params.thunderstormEnergy
                        > params.alphaEnergyDemand)
                 => grid'[c].storedEnergy >=
                       Min(params.maxCrystalEnergy,
                           grid[c].storedEnergy + params.thunderstormEnergy
                             - params.alphaEnergyDemand)]_vars
    /\ [][(pc = "sweep" /\ cursor <= Width * Height) =>
             LET c == CellSeq[cursor]
             IN  /\ Len(changes') > Len(changes)
                 /\ OutOfSurvivalBand(grid[c]) =>
                        changes'[Len(changes')] = Change(c, "STATE", 0, NoAttrs)
                 /\ (~OutOfSurvivalBand(grid[c]) /\ IsMiner(grid, c)) =>
                        \E i \in (Len(changes) + 1)..Len(changes') :
                            changes'[i] = Change(c, "MINING_ON", 0, NoAttrs)]_vars

\* the crystal pass has charged a cell that this tick's climate pass flagged
\* with a storm: 10 + thunderstormEnergy - alphaEnergyDemand
C15_Witness ==
    /\ pc = "sharing" /\ timeStep = 1
    /\ \E c \in Cells :
          /\ grid[c].hasThunderstorm /\ grid[c].crystalState = "ALPHA"
          /\ grid[c].storedEnergy = Q(10) + params.thunderstormEnergy - params.alphaEnergyDemand
          /\ params.thunderstormEnergy > 0 /\ params.mantleAbsorption = 0

\* C16: the census spawns a random species only if the number of distinct
\* speciesIds among BIO cells is less than bioAutoSpawnCount and timeStep
\* mod bioAutoSpawnInterval = 0, and does so whenever both hold and a
\* candidate cell exists; with bioAutoSpawnCount = 0 it never does.
C16_AutoSpawnIff ==
    [][(CensusStep /\ params.bioAutoSpawnInterval > 0) =>
          LET due == /\ Cardinality(SpeciesSet(grid)) < params.bioAutoSpawnCount
                     /\ timeStep % params.bioAutoSpawnInterval = 0
              spawned == \E c \in Cells :
                            /\ IsBio(grid'[c]) /\ ~IsBio(grid[c])
                            /\ grid'[c].bioAttributes.speciesId # 0
              settled == \E c \in Cells : IsBio(grid'[c]) /\ ~IsBio(grid[c])
          IN  /\ spawned => due
              /\ (due /\ SpeciesCandidates(grid) # {}) => settled]_vars

\* the change ch queued for an offspring carries an attribute that differs
\* from the parent's by more than newSpeciesThreshold of its value
IsNewSpeciesOf(ch, parent) ==
    \E k \in MutationKeys :
        Abs(ch.attrs[k] - parent[k]) * PerMille > Abs(parent[k]) * params.newSpeciesThreshold

\* C17: speciesId 0 denotes humans only.  The random-species spawn never
\* assigns speciesId 0; an offspring carries speciesId 0 only if its parent
\* does; and an offspring that is a new species (an attribute mutated beyond
\* newSpeciesThreshold) gets an id different from its parent's.
C17_ZeroIsHumanOnly ==
    /\ [][(/\ CensusStep
            /\ ~HumanSpawnDue(grid, params, isFirstSpawn, bioExtinctionStep, timeStep))
           => \A c \in Cells :
                  (IsBio(grid'[c]) /\ ~IsBio(grid[c])) =>
                      grid'[c].bioAttributes.speciesId # 0]_vars
    /\ [][(pc = "sweep" /\ cursor <= Width * Height) =>
             LET parent == grid[CellSeq[cursor]].bioAttributes
             IN  \A i \in (Len(changes) + 1)..Len(changes') :
                     changes'[i].type = "NEW_BIO" =>
                         /\ changes'[i].attrs.speciesId = 0 => parent.speciesId = 0
                         /\ IsNewSpeciesOf(changes'[i], parent) =>
                                changes'[i].attrs.speciesId # parent.speciesId]_vars

\* storedEnergy of the crystal on c after this tick's absorption, storm
\* charge and maintenance, before the cap
MetabolicBalance(c) ==
    grid[c].storedEnergy
    + (IF grid[c].mantleEnergy > Q(10)
       THEN Rate(grid[c].mantleEnergy, params.mantleAbsorption) ELSE 0)
    + (IF grid[c].hasThunderstorm THEN params.thunderstormEnergy ELSE 0)
    - (IF grid[c].crystalState = "ALPHA" THEN params.alphaEnergyDemand
       ELSE params.betaEnergyDemand)

\* C18: no step of update() makes a cell BETA except the metabolism of an
\* ALPHA cell whose storedEnergy is <= 0 after it (so a cell that is BETA at
\* the end of a tick was BETA at its start or was such an ALPHA cell); the
\* propagation sub-pass changes crystal states from EMPTY to ALPHA only; and
\* no step of update() turns a BETA cell into an ALPHA cell.
C18_BetaOnlyByExhaustion ==
    /\ [][pc # "idle" =>
             \A c \in Cells :
                 (grid'[c].crystalState = "BETA" /\ grid[c].crystalState # "BETA") =>
                     /\ pc = "metabolism"
                     /\ grid[c].exists /\ grid[c].crystalState = "ALPHA"
                     /\ MetabolicBalance(c) <= 0]_vars
    /\ [][pc = "propagation" =>
             \A c \in Cells :
                 grid'[c].crystalState # grid[c].crystalState =>
                     (grid[c].crystalState = "EMPTY" /\ grid'[c].crystalState = "ALPHA")]_vars
    /\ [][pc # "idle" =>
             \A c \in Cells :
                 ~(grid[c].crystalState = "BETA" /\ grid'[c].crystalState = "ALPHA")]_vars

\* the metabolism of step 50 has turned exhausted Alpha cells into Beta
\* cells (the grid held no Beta cell at step 49)
C18_Witness ==
    /\ pc = "sharing" /\ timeStep = 50 /\ hostOps = 0
    /\ \E c \in Cells : grid[c].crystalState = "BETA" /\ grid[c].storedEnergy = 0

\* this step is the mantle pass and it turns c to void
ShrunkNow(c) == pc = "mantle" /\ grid[c].exists /\ ~grid'[c].exists

\* this step is the commit of the bio pass, and the sweep queued the removal
\* of c as the mining target of a settlement next to it
MinedNow(c) ==
    /\ SweepDone
    /\ \E i \in 1..(Len(changes) - 1) :
          /\ changes[i] = Change(c, "STATE", 0, NoAttrs)
          /\ changes[i + 1].type = "MINING_ON"
          /\ c \in Range(getNeighbors(grid, changes[i + 1].cell, FALSE))

\* this step is the census and its human spawn writes c, the spawn point
OverwrittenBySpawn(c) ==
    /\ pc = "census"
    /\ HumanSpawnDue(grid, params, isFirstSpawn, bioExtinctionStep, timeStep)
    /\ params.humanSpawnPoint = c
    /\ IsBio(grid'[c]) /\ grid'[c].bioAttributes.speciesId = 0

C20_OnlyAlphaAbsorbs ==
    [][pc = "metabolism" =>
          \A c \in Cells :
              (grid[c].exists /\ grid[c].crystalState = "BETA") =>
                  /\ ~grid'[c].isAbsorbing
                  /\ grid'[c].storedEnergy <=
                        grid[c].storedEnergy
                        + (IF grid[c].hasThunderstorm THEN params.thunderstormEnergy ELSE 0)
                        - params.betaEnergyDemand]_vars

\* C21: the exists flag of a cell changes only in the mantle step of
\* update() (the commit of the queued terrain changes): the climate step, the
\* three crystal steps, the spawn stage and the sweep of the bio updater and
\* the host's tools leave exists as it is on every cell.
C21_ExistsOnlyByMantle ==
    [][(\E c \in Cells : grid'[c].exists # grid[c].exists) => pc = "mantle"]_vars

\* a mantle step has turned a cell of the initial land into void, and the
\* human has been spawned since, without touching the flag
C21_Witness ==
    /\ pc = "idle"
    /\ HumanExists(grid)
    /\ \E c \in Cells : InInitialDisk(c) /\ ~grid[c].exists

\* the per-tick cell invariant of C1 on the grid g
BioIffAttributes(g) ==
    \A c \in Cells :
        /\ (g[c].crystalState = "BIO") <=> g[c].bioAttributes.present
        /\ (g[c].crystalState = "BIO") => g[c].prosperity > 0

\* the host has just used the destroy tool
EraseStep == pc = "idle" /\ hostOps' = hostOps + 1 /\ params' = params

\* C22: a click of the erase brush changes only the land, non-EMPTY cells of
\* the grid inside its brushSize x brushSize square, which become EMPTY with
\* storedEnergy 0, and it keeps the per-tick cell invariant: a grid on which
\* a cell is BIO exactly when it carries bioAttributes is still one after
\* the erase (and so after the ticks that follow it).
C22_EraseKeepsInvariants ==
    [][EraseStep =>
          /\ \E click \in ClickCells : \E b \in BrushSizes :
                \A c \in Cells :
                    grid'[c] # grid[c] =>
                        /\ c[1] >= click[1] - (b \div 2) /\ c[1] < click[1] - (b \div 2) + b
                        /\ c[2] >= click[2] - (b \div 2) /\ c[2] < click[2] - (b \div 2) + b
                        /\ grid[c].exists /\ grid[c].crystalState # "EMPTY"
                        /\ grid'[c] = [grid[c] EXCEPT !.crystalState = "EMPTY",
                                                      !.storedEnergy = 0]
          /\ BioIffAttributes(grid) => BioIffAttributes(grid')]_vars

\* the sweep is visiting the settlement on c
Visiting(c) == pc = "sweep" /\ cursor <= Width * Height /\ c = CellSeq[cursor]

\* the grid g with the Alpha neighbours of c taken away
WithoutAlphaAround(g, c) ==
    [n \in Cells |->
        IF n \in Range(NeighborsWith(g, c, "ALPHA"))
        THEN [g[n] EXCEPT !.crystalState = "EMPTY"] ELSE g[n]]

\* the prosperity the visit of c stages first
StagedProsperity(c) ==
    LET new == SubSeq(changes', Len(changes) + 1, Len(changes'))
        isP(ch) == ch.cell = c /\ ch.type = "PROSPERITY"
    IN  SelectSeq(new, isP)[1].prosperity

\* C23: Alpha radiation damage is scaled by the immunity factor
\* max(0, 1 - prosperity / radiationImmunityThreshold), which is below 1 for
\* every settlement (its prosperity is positive): a settlement with k Alpha
\* neighbours loses to them less than k times the full damage
\* max(prosperityGrowth + 0.2, alphaRadiationDamage), and nothing at all
\* from some prosperity on.
C23_RadiationScaledByImmunity ==
    [][\A c \in Cells :
          (/\ Visiting(c) /\ ~OutOfSurvivalBand(grid[c])
           /\ grid[c].exists /\ grid[c].prosperity > 0
           /\ Len(NeighborsWith(grid, c, "ALPHA")) > 0)
          => LET k == Len(NeighborsWith(grid, c, "ALPHA"))
                 full == Max(grid[c].bioAttributes.prosperityGrowth + 2,
                             params.alphaRadiationDamage)
                 unharmed == NewProsperity(WithoutAlphaAround(grid, c), params, c)
             IN  unharmed - StagedProsperity(c) < k * full]_vars

\* the changes the step queues
NewChanges == SubSeq(changes', Len(changes) + 1, Len(changes'))

\* the visit of c stages a prosperity below the migration threshold, above 0
Distressed(c) ==
    /\ Visiting(c) /\ ~OutOfSurvivalBand(grid[c])
    /\ StagedProsperity(c) > 0
    /\ StagedProsperity(c) < grid[c].bioAttributes.migrationThreshold

\* C24: a settlement whose staged new prosperity is below its
\* migrationThreshold and above 0 is taken off its cell (its removal is
\* queued) and stays there as a migrant: the visit queues nothing that
\* settles it on a neighbouring cell.
C24_MigrantStaysOnCell ==
    [][\A c \in Cells :
          Distressed(c) =>
              /\ \E i \in 1..Len(NewChanges) :
                    NewChanges[i] = Change(c, "STATE", 0, NoAttrs)
              /\ \A i \in 1..Len(NewChanges) :
                    NewChanges[i].type = "MIGRATE" => NewChanges[i].cell = c]_vars

\* the growth rate of the settlement in cell: prosperityGrowth for humans,
\* not below minProsperityGrowth for the other species
GrowthRate(cell) ==
    IF cell.bioAttributes.speciesId = 0 THEN cell.bioAttributes.prosperityGrowth
    ELSE Max(cell.bioAttributes.prosperityGrowth, params.minProsperityGrowth)

\* the settlement on c is inside its adaptive band and has no Bio, Alpha or
\* Beta neighbour
QuietInBand(g, c) ==
    /\ IsBio(g[c]) /\ g[c].exists
    /\ NLe(g[c].bioAttributes.minTemp, g[c].temperature)
    /\ NLe(g[c].temperature, g[c].bioAttributes.maxTemp)
    /\ \A n \in Range(getNeighbors(g, c, FALSE)) : g[n].crystalState = "EMPTY"

C26_SweepReadsStartGrid ==
    [][\A c \in Cells :
          Visiting(c) =>
              \A n \in Cells :
                  (IsBio(grid[n]) /\ Index(n) > cursor) =>
                      grid'[n].prosperity = grid[n].prosperity]_vars

\* the energy stored in the Alpha network of the grid g
NetworkEnergy(g) ==
    LET e == [c \in Cells |-> IF g[c].crystalState = "ALPHA" THEN g[c].storedEnergy ELSE 0]
    IN  SumOver(Cells, e)

\* C28: the energy-sharing step never creates energy: the storedEnergy
\* summed over the ALPHA cells after the commit is at most the sum before
\* the step (what is missing is the decay on the wire and what was cut off
\* at maxCrystalEnergy).
C28_SharingCreatesNoEnergy ==
    [][(pc = "sharing" /\ pc' = "propagation") =>
          NetworkEnergy(grid') <= NetworkEnergy(grid)]_vars

\* C27: the storedEnergy of every cell after the energy-sharing step is the
\* same for every order in which the Alpha cells and their neighbours are
\* visited: whatever the order of the double loop, the pass leaves the grid
\* the step leaves.
C27_SharingOrderFree ==
    [][(pc = "sharing" /\ pc' = "propagation") =>
          \A pairs \in VisitOrders(grid) :
              \A c \in Cells :
                  SharingInOrder(grid, params, pairs)[c].storedEnergy = grid'[c].storedEnergy]_vars

\* the sharing step has run on a network in which one Alpha cell sent to
\* several neighbours, all of which can be visited in more than one order
C27_Witness ==
    /\ pc = "propagation"
    /\ Cardinality(VisitOrders(grid)) > 1
    /\ \E c \in Cells :
          /\ grid[c].crystalState = "ALPHA" /\ grid[c].storedEnergy = 0
          /\ Cardinality({n \in Range(NeighborsWith(grid, c, "ALPHA")) :
                             grid[n].storedEnergy > Q(5)}) > 1

\* the propagation step of the crystal updater
PropagationStep == pc = "propagation" /\ pc' = "census"

\* the Alpha cell c is rich enough to propagate and has room for it
CanPropagate(c) ==
    /\ grid[c].crystalState = "ALPHA"
    /\ grid[c].storedEnergy > 2 * params.expansionCost
    /\ \E n \in Range(getNeighbors(grid, c, FALSE)) :
          grid[n].exists /\ grid[n].crystalState = "EMPTY"

\* C29: in the propagation step exactly the ALPHA cells with storedEnergy >
\* 2 * expansionCost and a land EMPTY neighbour pay expansionCost, and they
\* stay Alpha; every cell the step changes besides them was a land EMPTY
\* neighbour of such a parent and is ALPHA with storedEnergy = 10 after it,
\* however many parents queued it.
C29_PropagationRules ==
    [][PropagationStep =>
          \A c \in Cells :
              IF CanPropagate(c)
              THEN grid'[c] = [grid[c] EXCEPT !.storedEnergy = @ - params.expansionCost]
              ELSE \/ grid'[c] = grid[c]
                   \/ /\ grid[c].exists /\ grid[c].crystalState = "EMPTY"
                      /\ \E n \in Range(getNeighbors(grid, c, FALSE)) : CanPropagate(n)
                      /\ grid'[c] = [grid[c] EXCEPT !.crystalState = "ALPHA",
                                                    !.storedEnergy = Q(10)]]_vars

\* the cell (1, 1), emptied by the brush, has been seeded again by an Alpha
\* neighbour, which holds more than the 10 of a new crystal
C29_Witness ==
    /\ pc = "census" /\ hostOps = 1
    /\ grid[<<1, 1>>].crystalState = "ALPHA" /\ grid[<<1, 1>>].storedEnergy = Q(10)
    /\ \A n \in Range(getNeighbors(grid, <<1, 1>>, FALSE)) :
          grid[n].crystalState = "ALPHA" /\ grid[n].storedEnergy > Q(10)

\* C30: in one propagation step the number of cells that turn from EMPTY to
\* ALPHA equals the number of parent cells charged expansionCost.
C30_OneCrystalPerCharge ==
    [][PropagationStep =>
          Cardinality({c \in Cells : /\ grid[c].crystalState = "EMPTY"
                                     /\ grid'[c].crystalState = "ALPHA"})
          = Cardinality({c \in Cells :
                            /\ grid[c].crystalState = "ALPHA"
                            /\ grid'[c].storedEnergy
                                  = grid[c].storedEnergy - params.expansionCost})]_vars

\* the grid the commit pass has reached when it comes to the i-th change
GridBefore(i) == ApplyChanges(grid, SubSeq(changes, 1, i - 1))

\* the commit pass of the bio updater
CommitStep == SweepDone /\ pc' = "idle"

\* C31: when a settlement expands, the commit pass creates its child (the
\* NEW_BIO entry finds its target EMPTY and is applied) whenever it charges
\* the parent 30, and after the tick the target is a settlement with
\* prosperity 30 and the mutated attributes and the parent is a settlement
\* with its staged prosperity minus 30.
C31_ChargedOnlyForChild ==
    [][CommitStep =>
          \A i \in 1..Len(changes) :
              changes[i].type = "NEW_BIO" =>
                  LET target == changes[i].cell
                      parent == changes[i + 1].cell
                  IN  /\ GridBefore(i)[target].crystalState = "EMPTY"
                      /\ IsBio(grid'[target])
                      /\ grid'[target].prosperity = Q(30)
                      /\ grid'[target].bioAttributes = changes[i].attrs
                      /\ IsBio(grid'[parent])
                      /\ grid'[parent].prosperity = changes[i + 1].prosperity]_vars

\* C32: a settlement that relocates is never lost: the commit pass either
\* applies its MIGRATE entry (the target is EMPTY when the entry's turn
\* comes, and after the tick it is a settlement with the staged prosperity
\* and the attributes of the entry), or the settlement is still on its
\* origin cell after the tick.
C32_RelocationKeepsSettlement ==
    [][CommitStep =>
          \A i \in 1..Len(changes) :
              changes[i].type = "MIGRATE" =>
                  LET target == changes[i].cell
                      origin == changes[i + 1].cell
                      settled(c) == /\ IsBio(grid'[c])
                                    /\ grid'[c].prosperity = changes[i].prosperity
                                    /\ grid'[c].bioAttributes = changes[i].attrs
                  IN  \/ GridBefore(i)[target].crystalState = "EMPTY" /\ settled(target)
                      \/ settled(origin)]_vars

\* the mantle step of update()
MantleStep == pc = "mantle" /\ pc' = "climate"

\* C33: a land cell becomes void in a tick only if it lies farther than
\* minRadius from the centre, its mantleEnergy after Phase A is below
\* shrinkThreshold and its shrinkAccumulator exceeds 200 in that tick; a land
\* cell within minRadius stays land and has shrinkAccumulator = 0 after the
\* pass; and after every mantle pass 0 <= shrinkAccumulator <= 200 and
\* 0 <= expansionAccumulator <= 100 on every land cell.
C33_ShrinkRules ==
    [][MantleStep =>
          \E noise \in NoiseDraws : \E infl \in InfluenceDraws \cup {0} :
          \E target \in ExpandTargets(MantlePhaseA(grid, params, noise, infl), params) :
             /\ grid' = updateMantleLayer(grid, params, noise, infl, target)
             /\ \A c \in Cells :
                   LET e == NewMantleEnergy(grid, params, c, noise, infl)
                   IN  /\ (grid[c].exists /\ ~grid'[c].exists) =>
                             /\ DistGt(c, params.minRadius)
                             /\ e < params.shrinkThreshold
                             /\ grid[c].shrinkAccumulator + (params.shrinkThreshold - e) > Q(200)
                       /\ (grid[c].exists /\ DistLe(c, params.minRadius)) =>
                             /\ grid'[c].exists
                             /\ grid'[c].shrinkAccumulator = 0
                       /\ grid'[c].exists =>
                             /\ 0 <= grid'[c].shrinkAccumulator
                             /\ grid'[c].shrinkAccumulator <= Q(200)
                             /\ 0 <= grid'[c].expansionAccumulator
                             /\ grid'[c].expansionAccumulator <= Q(100)]_vars

\* the mantle pass has just shrunk a cell of the initial land while another
\* land cell is still accumulating its deficit
C33_Witness ==
    /\ pc = "climate"
    /\ \E c \in Cells : InInitialDisk(c) /\ ~grid[c].exists /\ grid[c].mantleEnergy = 0
    /\ \E c \in Cells : grid[c].exists /\ grid[c].shrinkAccumulator > 0

\* C34: maxRadius is a hard limit on the landmass: the mantle step never
\* turns a void cell into land when the cell's distance from the centre is
\* greater than or equal to maxRadius.
C34_MaxRadiusIsHard ==
    [][MantleStep =>
          \A c \in Cells :
              (~grid[c].exists /\ grid'[c].exists) => DistLt(c, params.maxRadius)]_vars

\* C35: after every update() every void cell has hasThunderstorm = FALSE,
\* also a cell that carried a storm and was shrunk to void by this tick's
\* mantle step.
C35_NoStormOnVoid ==
    [][CommitStep =>
          \A c \in Cells : ~grid'[c].exists => ~grid'[c].hasThunderstorm]_vars

ClimateStep == pc = "climate" /\ pc' = "metabolism"

\* the storm condition of the land cell c on the grid g the climate pass
\* starts from: T above -50 and |T - mean neighbour temperature| above
\* thunderstormThreshold
StormCondition(g, p, c) ==
    /\ ~IsNaN(g[c].temperature) /\ ~IsNaN(AvgTemp(g, c))
    /\ g[c].temperature > Q(-50)
    /\ Abs(g[c].temperature - AvgTemp(g, c)) > p.thunderstormThreshold

\* C36: after the climate pass a land cell has hasThunderstorm = TRUE only
\* if its pre-step temperature was above -50 and its distance from the mean
\* neighbour temperature exceeded thunderstormThreshold; every land cell for
\* which the condition fails has the flag cleared.
C36_StormOnlyOnCondition ==
    [][ClimateStep =>
          \A c \in Cells :
              (grid[c].exists /\ ~StormCondition(grid, params, c))
                  => ~grid'[c].hasThunderstorm]_vars

\* C37: after every update() the temperature and the mantleEnergy of every
\* land cell are finite numbers, also for a land cell without land
\* neighbours.
C37_LandValuesFinite ==
    [][CommitStep =>
          \A c \in Cells :
              grid'[c].exists => ~IsNaN(grid'[c].temperature) /\ ~IsNaN(grid'[c].mantleEnergy)]_vars

\* the child differs from the parent by a draw of mutations of which one
\* changes its attribute by more than newSpeciesThreshold of the value
\* (|val * mutationStrength| > |val| * newSpeciesThreshold)
MutatedBeyondThreshold(parent, child) ==
    \E m \in MutationDraws(params) :
        /\ \A k \in MutationKeys :
              child[k] = parent[k] + m[k] * ((parent[k] * params.mutationStrength) \div PerMille)
        /\ \E k \in MutationKeys :
              /\ m[k] # 0
              /\ Abs(parent[k] * params.mutationStrength) > Abs(parent[k]) * params.newSpeciesThreshold

\* C38: a child settlement queued by an expansion keeps its parent's
\* speciesId unless one of its mutated attributes changed by more than
\* newSpeciesThreshold of its value; with mutationRate = 0 or
\* mutationStrength <= newSpeciesThreshold the child has the parent's
\* speciesId, and with mutationRate = 0 the parent's attributes.
C38_SpeciesKept ==
    [][\A c \in Cells :
          Visiting(c) =>
              \A i \in 1..Len(NewChanges) :
                  NewChanges[i].type = "NEW_BIO" =>
                      LET parent == grid[c].bioAttributes
                          child == NewChanges[i].attrs
                      IN  /\ child.speciesId # parent.speciesId
                                => MutatedBeyondThreshold(parent, child)
                          /\ (params.mutationRate = 0
                              \/ params.mutationStrength <= params.newSpeciesThreshold)
                                => child.speciesId = parent.speciesId
                          /\ params.mutationRate = 0 => child = parent]_vars

\* under a mutationStrength within newSpeciesThreshold a child is queued that
\* differs from its parent in a mutated attribute and has the parent's
\* speciesId
C38_Witness ==
    /\ pc = "sweep"
    /\ params.mutationRate > 0 /\ params.mutationStrength <= params.newSpeciesThreshold
    /\ \E i \in 1..Len(changes) :
          /\ changes[i].type = "NEW_BIO"
          /\ LET parent == grid[changes[i + 1].cell].bioAttributes
             IN  /\ changes[i].attrs # parent
                 /\ changes[i].attrs.speciesId = parent.speciesId

====
